---- MODULE Spec2Model ----
(***************************************************************************)
(* containerd-registry: a read-only OCI registry backend over containerd's *)
(* image catalog and content store (src/main.go).                          *)
(*                                                                         *)
(* Strings are sequences of one-character strings, so that the reference   *)
(* parser, the catalog's byte order and the tag filter are computed on the *)
(* characters, as the code computes them.                                  *)
(***************************************************************************)
EXTENDS Integers, Sequences, FiniteSets, TLC

VARIABLES
    images,     \* the image catalog (containerd's image service): a set of [name, target]
    out,        \* the last enumeration call: its arguments, what List returned, what it emitted
    store,      \* the content store: digest -> blob or NoBlob
    readers,    \* the store readers handed out so far: sequence of [digest, closes]
    br,         \* per request: the containerdBlobReader it holds, or NoStream
    ret         \* per request: the result of its last call

vars == <<images, out, store, readers, br, ret>>

-----------------------------------------------------------------------------
(* Characters and byte order *)

\* The characters the model's names use, in ASCII order.  DG1 and DG2 stand
\* for whole valid digests ("sha256:" and 64 hex digits); they take the place
\* of their first character, "s".
Alphabet ==
    << "-", ".", "/", "0", "1", "2", "5", ":", "@", "A", "_",
       "a", "b", "c", "d", "e", "h", "i", "k", "l", "o", "r",
       "DG1", "DG2", "t", "v", "x", "y" >>

Chars == { Alphabet[i] : i \in 1..Len(Alphabet) }

Ord(c) == CHOOSE i \in 1..Len(Alphabet) : Alphabet[i] = c

DigestAtoms == {"DG1", "DG2"}
Lower == {"a", "b", "c", "d", "e", "h", "i", "k", "l", "o", "r", "t", "v", "x", "y"}
Upper == {"A"}
Digit == {"0", "1", "2", "5"}

\* strings.ToLower on one character
ToLowerChar(c) == IF c = "A" THEN "a" ELSE c

\* Go's string comparison: bytewise, a proper prefix is smaller
RECURSIVE StrLess(_, _)
StrLess(s, t) ==
    IF t = <<>> THEN FALSE
    ELSE IF s = <<>> THEN TRUE
    ELSE IF Head(s) = Head(t) THEN StrLess(Tail(s), Tail(t))
    ELSE Ord(Head(s)) < Ord(Head(t))

StrLeq(s, t) == s = t \/ StrLess(s, t)

HasPrefix(s, p) == Len(p) <= Len(s) /\ SubSeq(s, 1, Len(p)) = p

\* strings.IndexRune: the first index of c in s, 0 when there is none
IndexRune(s, c) ==
    IF \E i \in 1..Len(s) : s[i] = c
    THEN CHOOSE i \in 1..Len(s) : s[i] = c /\ \A j \in 1..(i - 1) : s[j] # c
    ELSE 0

LastIndex(s, c) ==
    IF \E i \in 1..Len(s) : s[i] = c
    THEN CHOOSE i \in 1..Len(s) : s[i] = c /\ \A j \in (i + 1)..Len(s) : s[j] # c
    ELSE 0

Contains(s, c) == \E i \in 1..Len(s) : s[i] = c

\* strings.Split(s, c)
RECURSIVE Split(_, _)
Split(s, c) ==
    LET i == IndexRune(s, c)
    IN  IF i = 0 THEN <<s>>
        ELSE <<SubSeq(s, 1, i - 1)>> \o Split(SubSeq(s, i + 1, Len(s)), c)

-----------------------------------------------------------------------------
(* containerd's reference/docker package, as far as src/main.go uses it:   *)
(* Parse (line 75), ParseNormalizedNamed (line 47) and the Named, Tagged   *)
(* and Digested views of a parsed reference.                               *)

AlphaNumeric == Lower \cup Digit                    \* [a-z0-9]
DomainChar == Lower \cup Upper \cup Digit           \* [a-zA-Z0-9]
WordChar == Lower \cup Upper \cup Digit \cup {"_"}  \* \w
SeparatorChar == {"_", ".", "-"}

\* path-component := alpha-numeric (separator alpha-numeric)*,
\* separator := [_.] | __ | [-]*
IsPathComponent(s) ==
    /\ Len(s) > 0
    /\ s[1] \in AlphaNumeric
    /\ s[Len(s)] \in AlphaNumeric
    /\ \A i \in 1..Len(s) : s[i] \in AlphaNumeric \cup SeparatorChar
    /\ \A i \in 1..(Len(s) - 1) :
          (s[i] \in SeparatorChar /\ s[i + 1] \in SeparatorChar)
             => /\ s[i] = s[i + 1]
                /\ s[i] \in {"_", "-"}
    /\ \A i \in 1..(Len(s) - 2) : ~(s[i] = "_" /\ s[i + 1] = "_" /\ s[i + 2] = "_")

\* domain-component := [a-zA-Z0-9] | [a-zA-Z0-9][a-zA-Z0-9-]*[a-zA-Z0-9]
IsDomainComponent(s) ==
    /\ Len(s) > 0
    /\ s[1] \in DomainChar
    /\ s[Len(s)] \in DomainChar
    /\ \A i \in 1..Len(s) : s[i] \in DomainChar \cup {"-"}

\* domain := domain-component ('.' domain-component)* (':' [0-9]+)?
IsDomain(s) ==
    LET c == IndexRune(s, ":")
        host == IF c = 0 THEN s ELSE SubSeq(s, 1, c - 1)
        port == IF c = 0 THEN <<>> ELSE SubSeq(s, c + 1, Len(s))
        labels == Split(host, ".")
    IN  /\ \A i \in 1..Len(labels) : IsDomainComponent(labels[i])
        /\ c # 0 => (Len(port) > 0 /\ \A i \in 1..Len(port) : port[i] \in Digit)

\* name := (domain '/')? path-component ('/' path-component)*
IsName(s) ==
    LET comps == Split(s, "/")
    IN  \/ \A i \in 1..Len(comps) : IsPathComponent(comps[i])
        \/ /\ Len(comps) >= 2
           /\ IsDomain(comps[1])
           /\ \A i \in 2..Len(comps) : IsPathComponent(comps[i])

\* tag := [\w][\w.-]{0,127}
IsTag(s) ==
    /\ Len(s) > 0
    /\ Len(s) <= 128
    /\ s[1] \in WordChar
    /\ \A i \in 1..Len(s) : s[i] \in WordChar \cup {".", "-"}

\* digest := algorithm ':' hex{32,}, then validated by the digest package;
\* the valid digests of the model are the digest atoms
IsDigest(s) == Len(s) = 1 /\ s[1] \in DigestAtoms

ParseError == [ok |-> FALSE, name |-> <<>>, tag |-> <<>>, digest |-> <<>>]

\* docker.Parse: ReferenceRegexp = ^(name)(?::(tag))?(?:@(digest))?$ .
\* Neither a name nor a tag holds '@', so the digest starts after the first
\* '@'; a ':' of the name lies in its domain and has a '/' after it, so a
\* last ':' with no '/' after it separates the tag.
Parse(s) ==
    LET at == IndexRune(s, "@")
        left == IF at = 0 THEN s ELSE SubSeq(s, 1, at - 1)
        dgst == IF at = 0 THEN <<>> ELSE SubSeq(s, at + 1, Len(s))
        colon == LastIndex(left, ":")
        tagged == colon # 0 /\ ~Contains(SubSeq(left, colon + 1, Len(left)), "/")
        name == IF tagged THEN SubSeq(left, 1, colon - 1) ELSE left
        tag == IF tagged THEN SubSeq(left, colon + 1, Len(left)) ELSE <<>>
    IN  IF /\ IsName(name)
           /\ Len(name) <= 255
           /\ tagged => IsTag(tag)
           /\ at # 0 => IsDigest(dgst)
        THEN [ok |-> TRUE, name |-> name, tag |-> tag, digest |-> dgst]
        ELSE ParseError

\* the type assertions ref.(docker.Digested) and ref.(docker.Tagged)
IsDigested(ref) == ref.digest # <<>>
IsTagged(ref) == ref.tag # <<>>

DefaultDomain == <<"d", "o", "c", "k", "e", "r", ".", "i", "o">>
LegacyDefaultDomain == <<"i", "n", "d", "e", "x", ".">> \o DefaultDomain
OfficialRepoName == <<"l", "i", "b", "r", "a", "r", "y">>
Localhost == <<"l", "o", "c", "a", "l", "h", "o", "s", "t">>

\* splitDockerDomain
SplitDockerDomain(name) ==
    LET i == IndexRune(name, "/")
        first == SubSeq(name, 1, i - 1)
        noDomain == i = 0 \/ (~Contains(first, ".") /\ ~Contains(first, ":") /\ first # Localhost)
        domain0 == IF noDomain THEN DefaultDomain ELSE first
        remainder0 == IF noDomain THEN name ELSE SubSeq(name, i + 1, Len(name))
        domain == IF domain0 = LegacyDefaultDomain THEN DefaultDomain ELSE domain0
        remainder == IF domain = DefaultDomain /\ ~Contains(remainder0, "/")
                     THEN OfficialRepoName \o <<"/">> \o remainder0
                     ELSE remainder0
    IN  [domain |-> domain, remainder |-> remainder]

\* anchoredIdentifierRegexp: ^[a-f0-9]{64}$
IsIdentifier(s) ==
    Len(s) = 64 /\ \A i \in 1..Len(s) : s[i] \in Digit \cup {"a", "b", "c", "d", "e", "f"}

\* docker.ParseNormalizedNamed
ParseNormalizedNamed(s) ==
    LET sp == SplitDockerDomain(s)
        tagSep == IndexRune(sp.remainder, ":")
        remoteName == IF tagSep # 0 THEN SubSeq(sp.remainder, 1, tagSep - 1) ELSE sp.remainder
    IN  IF IsIdentifier(s) THEN ParseError
        ELSE IF \E i \in 1..Len(remoteName) : ToLowerChar(remoteName[i]) # remoteName[i]
        THEN ParseError
        ELSE Parse(sp.domain \o <<"/">> \o sp.remainder)

-----------------------------------------------------------------------------
(* The image catalog (containerd's image service) *)

\* the most images the catalog holds
MaxImages == 3

N_a_1 == <<"a", ":", "1">>
N_b_1 == <<"b", ":", "1">>
N_lib_a_2 == DefaultDomain \o <<"/">> \o OfficialRepoName \o <<"/", "a", ":", "2">>
N_ab == <<"a", "/", "b">>
N_ab_v1 == <<"a", "/", "b", ":", "v", "1">>
N_ab_v2 == <<"a", "/", "b", ":", "v", "2">>
N_ab_v1_dg == <<"a", "/", "b", ":", "v", "1", "@", "DG2">>
N_ab_v1_bad == <<"a", "/", "b", ":", "v", "1", "@", "x">>
N_abc_1 == <<"a", "/", "b", "c", ":", "1">>
N_cd_dg == <<"c", "/", "d", "@", "DG1">>
N_h_t == <<"h", ":", "t">>
N_h5000_x_t == <<"h", ":", "5", "0", "0", "0", "/", "x", ":", "t">>
N_A_1 == <<"A", ":", "1">>

\* the qualified names the catalog draws from
UniverseNames ==
    { N_a_1, N_b_1, N_lib_a_2, N_ab, N_ab_v1, N_ab_v2, N_ab_v1_dg, N_ab_v1_bad,
      N_abc_1, N_cd_dg, N_h_t, N_h5000_x_t, N_A_1 }

\* the repository arguments of tags(R)
R_ab == <<"a", "/", "b">>
R_cd == <<"c", "/", "d">>
R_h == <<"h">>
R_a == <<"a">>
RepoArgs == { R_ab, R_cd, R_h, R_a }

Digests == DigestAtoms

OctetStream == "application/octet-stream"
OCIManifest == "application/vnd.oci.image.manifest.v1+json"
DockerManifest == "application/vnd.docker.distribution.manifest.v2+json"

\* ociregistry.Descriptor
Desc(d, n, mt) == [digest |-> d, size |-> n, mediaType |-> mt]

CatalogTarget == Desc("DG1", 128, OCIManifest)

Names(entries) == { e.name : e \in entries }

\* the entries in the catalog's order: sorted by name, bytewise
RECURSIVE SortByName(_)
SortByName(entries) ==
    IF entries = {} THEN <<>>
    ELSE LET first == CHOOSE e \in entries : \A f \in entries : StrLeq(e.name, f.name)
         IN  <<first>> \o SortByName(entries \ {first})

\* regexp.QuoteMeta: a backslash (BSL) before every metacharacter
RegexpMeta == {".", "+", "*", "?", "(", ")", "|", "[", "]", "{", "}", "^", "$", "BSL"}

RECURSIVE QuoteMeta(_)
QuoteMeta(s) ==
    IF s = <<>> THEN <<>>
    ELSE (IF Head(s) \in RegexpMeta THEN <<"BSL", Head(s)>> ELSE <<Head(s)>>)
         \o QuoteMeta(Tail(s))

\* strconv.Quote on these characters: double quotes (DQ) around the string,
\* a backslash before each backslash and double quote
RECURSIVE QuoteBody(_)
QuoteBody(s) ==
    IF s = <<>> THEN <<>>
    ELSE (IF Head(s) \in {"BSL", "DQ"} THEN <<"BSL", Head(s)>> ELSE <<Head(s)>>)
         \o QuoteBody(Tail(s))

Quote(s) == <<"DQ">> \o QuoteBody(s) \o <<"DQ">>

\* the filter parser's unquoting of the quoted value (strconv.Unquote)
RECURSIVE UnquoteBody(_)
UnquoteBody(s) ==
    IF s = <<>> THEN <<>>
    ELSE IF Head(s) = "BSL" /\ Len(s) >= 2
         THEN <<s[2]>> \o UnquoteBody(SubSeq(s, 3, Len(s)))
         ELSE <<Head(s)>> \o UnquoteBody(Tail(s))

Unquote(q) == UnquoteBody(SubSeq(q, 2, Len(q) - 1))

\* the regular expressions the filter can hold: literals, escaped
\* characters, '.' and a leading '^'
RECURSIVE MatchHere(_, _)
MatchHere(p, s) ==
    IF p = <<>> THEN TRUE
    ELSE IF s = <<>> THEN FALSE
    ELSE IF Head(p) = "BSL" /\ Len(p) >= 2
         THEN s[1] = p[2] /\ MatchHere(SubSeq(p, 3, Len(p)), Tail(s))
    ELSE IF Head(p) = "."
         THEN MatchHere(Tail(p), Tail(s))
    ELSE s[1] = Head(p) /\ MatchHere(Tail(p), Tail(s))

\* regexp.MatchString
MatchString(p, s) ==
    IF p # <<>> /\ Head(p) = "^"
    THEN MatchHere(Tail(p), s)
    ELSE \E i \in 1..(Len(s) + 1) : MatchHere(p, SubSeq(s, i, Len(s)))

\* the filter of Tags: "name~=" + strconv.Quote("^" + regexp.QuoteMeta(repo) + ":"),
\* given here as the quoted regular expression
TagsFilter(repo) == Quote(<<"^">> \o QuoteMeta(repo) \o <<":">>)

\* is.List(ctx): every entry, sorted by name
ListAll(entries) == SortByName(entries)

\* is.List(ctx, "name~=<quoted>"): the entries whose name the expression matches
ListFiltered(entries, quoted) ==
    SortByName({ e \in entries : MatchString(Unquote(quoted), e.name) })

-----------------------------------------------------------------------------
(* Repository and tag enumeration: containerdRegistry.Repositories and     *)
(* containerdRegistry.Tags                                                 *)

\* the loop of Repositories over the listed images
\* a loop that stops at the first entry whose name does not parse
RECURSIVE RepositoriesLoopAbort(_, _)
RepositoriesLoopAbort(imgs, names) ==
    IF imgs = <<>> THEN names
    ELSE LET ref == ParseNormalizedNamed(Head(imgs).name)
         IN  IF ~ref.ok THEN names
             ELSE IF Len(names) > 0 /\ names[Len(names)] = ref.name
             THEN RepositoriesLoopAbort(Tail(imgs), names)
             ELSE RepositoriesLoopAbort(Tail(imgs), Append(names, ref.name))

RECURSIVE RepositoriesLoop(_, _)
RepositoriesLoop(imgs, names) ==
    IF imgs = <<>> THEN names
    ELSE LET ref == ParseNormalizedNamed(Head(imgs).name)
             repo == ref.name
         IN  IF ~ref.ok
             THEN RepositoriesLoop(Tail(imgs), names)
             ELSE IF Len(names) > 0 /\ names[Len(names)] = repo
             THEN RepositoriesLoop(Tail(imgs), names)
             ELSE RepositoriesLoop(Tail(imgs), Append(names, repo))

\* Tags without the test for digested references (lines 81-84)
RECURSIVE TagsLoopKeepDigested(_, _)
TagsLoopKeepDigested(imgs, tags) ==
    IF imgs = <<>> THEN tags
    ELSE LET ref == Parse(Head(imgs).name)
         IN  IF ~ref.ok
             THEN TagsLoopKeepDigested(Tail(imgs), tags)
             ELSE IF IsTagged(ref)
             THEN TagsLoopKeepDigested(Tail(imgs), Append(tags, ref.tag))
             ELSE TagsLoopKeepDigested(Tail(imgs), tags)

\* the loop of Tags over the listed images
RECURSIVE TagsLoop(_, _)
TagsLoop(imgs, tags) ==
    IF imgs = <<>> THEN tags
    ELSE LET ref == Parse(Head(imgs).name)
         IN  IF ~ref.ok
             THEN TagsLoop(Tail(imgs), tags)
             ELSE IF IsDigested(ref)
             THEN TagsLoop(Tail(imgs), tags)
             ELSE IF IsTagged(ref)
             THEN TagsLoop(Tail(imgs), Append(tags, ref.tag))
             ELSE TagsLoop(Tail(imgs), tags)

\* no enumeration has run against the catalog as it is now
NoCall ==
    [op |-> "none", repo |-> <<>>, listed |-> <<>>, status |-> "none", items |-> <<>>,
     listErr |-> FALSE]

\* ociregistry.ErrorIter / ociregistry.SliceIter, with the call they answer;
\* listed is the local images: what is.List returned; listErr is whether
\* is.List failed, filled in by the call
ErrorIter(op, repo) ==
    [op |-> op, repo |-> repo, listed |-> <<>>, status |-> "error", items |-> <<>>,
     listErr |-> FALSE]

SliceIter(op, repo, listed, items) ==
    [op |-> op, repo |-> repo, listed |-> listed, status |-> "ok", items |-> items,
     listErr |-> FALSE]

\* a Repositories that answers a failed listing with an empty sequence
RepositoriesIterEmptyOnError(listErr) ==
    LET imgs == IF listErr THEN <<>> ELSE ListAll(images)
    IN  SliceIter("repositories", <<>>, imgs, RepositoriesLoop(imgs, <<>>))

\* what Repositories(ctx) returns; listErr: is.List returns an error
RepositoriesIter(listErr) ==
    IF listErr
    THEN ErrorIter("repositories", <<>>)
    ELSE LET imgs == ListAll(images)
         IN  SliceIter("repositories", <<>>, imgs, RepositoriesLoop(imgs, <<>>))

\* what Tags(ctx, repo) returns
TagsIter(repo, listErr) ==
    IF listErr
    THEN ErrorIter("tags", repo)
    ELSE LET imgs == ListFiltered(images, TagsFilter(repo))
         IN  SliceIter("tags", repo, imgs, TagsLoop(imgs, <<>>))

\* Repositories(ctx)
Repositories(listErr) ==
    /\ out' = [RepositoriesIter(listErr) EXCEPT !.listErr = listErr]
    /\ UNCHANGED <<images, store, readers, br, ret>>

\* Tags(ctx, repo)
Tags(repo, listErr) ==
    /\ out' = [TagsIter(repo, listErr) EXCEPT !.listErr = listErr]
    /\ UNCHANGED <<images, store, readers, br, ret>>

\* the catalog changes between calls: an image is created or deleted by
\* another client of containerd; the sequence an earlier call returned has
\* been consumed by then
ImageCreate(n, t) ==
    /\ Cardinality(images) < MaxImages
    /\ n \notin Names(images)
    /\ images' = images \cup {[name |-> n, target |-> t]}
    /\ out' = NoCall
    /\ UNCHANGED <<store, readers, br, ret>>

ImageDelete(n) ==
    /\ n \in Names(images)
    /\ images' = { e \in images : e.name # n }
    /\ out' = NoCall
    /\ UNCHANGED <<store, readers, br, ret>>

-----------------------------------------------------------------------------
(* Properties of the enumerations *)

Items == { out.items[i] : i \in 1..Len(out.items) }

RepositoriesReturned == out.op = "repositories" /\ out.status = "ok"
TagsReturned == out.op = "tags" /\ out.status = "ok"

\* the repository name of a catalog entry, for the entries that parse
ParsedRepositories ==
    { ParseNormalizedNamed(e.name).name :
        e \in { f \in images : ParseNormalizedNamed(f.name).ok } }

\* C1: repositories() emits each distinct parsed repository name of the
\* (sorted) catalog exactly once: none is missing, none is emitted twice.
RepositoriesExactlyOnce ==
    RepositoriesReturned =>
        /\ Items = ParsedRepositories
        /\ \A i, j \in 1..Len(out.items) : out.items[i] = out.items[j] => i = j

\* C2: the sequence repositories() emits is in non-decreasing lexicographic
\* order of the emitted repository names.
RepositoriesSorted ==
    RepositoriesReturned =>
        \A i \in 1..(Len(out.items) - 1) : StrLeq(out.items[i], out.items[i + 1])

\* a digest-qualified name holds an '@': R@digest or R:tag@digest
DigestQualified(n) == Contains(n, "@")

HasSuffix(s, x) == Len(x) <= Len(s) /\ SubSeq(s, Len(s) - Len(x) + 1, Len(s)) = x

\* the entries of the catalog that tags(R) may draw a tag from
TagEntries(repo) ==
    { e \in images : ~DigestQualified(e.name) /\ HasPrefix(e.name, repo \o <<":">>) }

\* C3: tags(R) emits nothing derived from a digest-qualified entry: every
\* emitted tag ends the name of an entry that is not digest-qualified, and no
\* more tags are emitted than there are such entries under "R:"; a repository
\* with only digest-qualified entries yields the empty sequence, successfully.
TagsExcludeDigests ==
    TagsReturned =>
        /\ \A t \in Items :
              \E e \in images : ~DigestQualified(e.name) /\ HasSuffix(e.name, <<":">> \o t)
        /\ Len(out.items) <= Cardinality(TagEntries(out.repo))
        /\ TagEntries(out.repo) = {} => out.items = <<>>

\* tags(R) has run on a catalog holding a digest-qualified entry of R, which
\* the filter listed and the parser accepted, next to a tag of R
TagsSawDigestEntry ==
    /\ TagsReturned
    /\ \E i \in 1..Len(out.listed) :
          DigestQualified(out.listed[i].name) /\ Parse(out.listed[i].name).ok
    /\ out.items # <<>>

\* C4: every tag t emitted by tags(R) is such that "R:t" is the name of some
\* catalog entry.
TagsBelongToRepository ==
    TagsReturned =>
        \A t \in Items : (out.repo \o <<":">> \o t) \in Names(images)

\* C14: when listing the catalog fails, repositories() and tags(R) return a
\* sequence that reports an error and holds no element; a sequence that
\* succeeds comes from a listing that succeeded.
ListFailureIsError ==
    out.op # "none"
        => /\ out.listErr => (out.status = "error" /\ out.items = <<>>)
           /\ out.status = "ok" => ~out.listErr

\* the listing failed for tags(R) while the catalog held a tag of R
TagsListFailed ==
    /\ out.op = "tags"
    /\ out.listErr
    /\ \E e \in images : HasPrefix(e.name, out.repo \o <<":">>)

\* the catalog without the entries whose name the call's parser rejects
ParseableForRepositories == { e \in images : ParseNormalizedNamed(e.name).ok }
ParseableForTags == { e \in images : Parse(e.name).ok }

\* C17: whatever entries the catalog holds, repositories() and tags(R)
\* succeed when the listing does, and what they emit is what they emit on
\* the catalog with the unparseable entries taken out.
UnparseableEntriesSkipped ==
    /\ (out.op # "none" /\ ~out.listErr) => out.status = "ok"
    /\ RepositoriesReturned
         => out.items = RepositoriesLoop(ListAll(ParseableForRepositories), <<>>)
    /\ TagsReturned
         => out.items = TagsLoop(ListFiltered(ParseableForTags, TagsFilter(out.repo)), <<>>)

\* repositories() met an unparseable entry between two entries of one
\* repository and emitted that repository once
UnparseableBetweenSameRepository ==
    /\ RepositoriesReturned
    /\ Len(out.items) = 1
    /\ \E i, j, k \in 1..Len(out.listed) :
          /\ i < j
          /\ j < k
          /\ ParseNormalizedNamed(out.listed[i].name).ok
          /\ ~ParseNormalizedNamed(out.listed[j].name).ok
          /\ ParseNormalizedNamed(out.listed[k].name).ok
          /\ ParseNormalizedNamed(out.listed[i].name).name
                = ParseNormalizedNamed(out.listed[k].name).name

-----------------------------------------------------------------------------
(* The content store and the blob readers *)

\* the concurrent requests, each holding its own blob reader
NumReq == 2
Req == 1..NumReq

\* the most Read calls and Close calls made on one blob reader
MaxReads == 2
MaxCloses == 2

NoBlob == [present |-> FALSE]
Blob(n, c) == [present |-> TRUE, size |-> n, content |-> c]

\* The content of a blob, as json.Decoder sees its first value: bytes that
\* are no JSON ("invalid"), no bytes at all ("empty"), or a JSON value; an
\* object's members are in the order of the text, each [key, value]; a
\* value is a string ([type |-> "string", s |-> ...]) or of another type
Str(x) == [type |-> "string", s |-> x]
Num == [type |-> "number", s |-> ""]
Member(k, v) == [key |-> k, value |-> v]
Object(ms) == [json |-> "object", members |-> ms]
Invalid == [json |-> "invalid", members |-> <<>>]
Empty == [json |-> "empty", members |-> <<>>]
Null == [json |-> "null", members |-> <<>>]
Array == [json |-> "array", members |-> <<>>]

\* a maximum for the bytes read while sniffing a manifest; whatever it is
\* set to, the store may hold a manifest that is longer
SniffLimit == 4096
Oversized ==
    Blob(SniffLimit + 1,
         Object(<<Member("schemaVersion", Num), Member("mediaType", Str(DockerManifest))>>))

\* the blobs a digest of the store may hold
StoreBlobs ==
    { Oversized,
      Blob(0, Empty),
      Blob(42, Invalid),
      Blob(4, Null),
      Blob(2, Array),
      Blob(19, Object(<<Member("schemaVersion", Num)>>)),
      Blob(128, Object(<<Member("schemaVersion", Num), Member("mediaType", Str(OCIManifest))>>)),
      Blob(16, Object(<<Member("mediaType", Str(""))>>)),
      Blob(15, Object(<<Member("mediaType", Num)>>)),
      Blob(70, Object(<<Member("MediaType", Str(DockerManifest))>>)),
      Blob(90, Object(<<Member("mediaType", Str(OCIManifest)), Member("MediaType", Str(""))>>)) }

\* encoding/json matches an object key with the field tagged "mediaType"
\* exactly or under case folding
FoldsToMediaType == {"mediaType", "MediaType", "MEDIATYPE", "mediatype"}
KeyMatchesField(k) == k \in FoldsToMediaType

\* the members of an object decoded into mediaTypeWrapper, in order: a
\* string sets the field, a value of another type is a type error
RECURSIVE DecodeMembers(_, _)
DecodeMembers(ms, acc) ==
    IF ms = <<>> THEN acc
    ELSE LET m == Head(ms)
         IN  IF ~KeyMatchesField(m.key)
             THEN DecodeMembers(Tail(ms), acc)
             ELSE IF m.value.type = "string"
             THEN DecodeMembers(Tail(ms), [acc EXCEPT !.mediaType = m.value.s])
             ELSE DecodeMembers(Tail(ms), [acc EXCEPT !.err = "type"])

\* json.NewDecoder(content.NewReader(ra)).Decode(&mediaTypeWrapper)
Decode(c) ==
    CASE c.json = "empty" -> [err |-> "EOF", mediaType |-> ""]
      [] c.json = "invalid" -> [err |-> "syntax", mediaType |-> ""]
      [] c.json = "null" -> [err |-> "none", mediaType |-> ""]
      [] c.json = "array" -> [err |-> "type", mediaType |-> ""]
      [] c.json = "object" -> DecodeMembers(c.members, [err |-> "none", mediaType |-> ""])

\* the bytes Decode takes from the raw reader: json.Decoder reads on until
\* the first value is complete, and here the value is the whole blob; bytes
\* that are no JSON are shorter than the decoder's first read
BytesRead(b) == IF b.content.json = "empty" THEN 0 ELSE b.size

\* ContentStore().Info(ctx, digest)
Info(st, d) ==
    IF st[d].present THEN [err |-> "none", size |-> st[d].size]
    ELSE [err |-> "notfound", size |-> 0]

\* containerdBlobReader.validate: the descriptor completed from the store
ValidateKeepSize(st, desc) ==
    LET info == Info(st, desc.digest)
    IN  IF info.err # "none" THEN [err |-> info.err, desc |-> desc]
        ELSE [err |-> "none",
              desc |-> [desc EXCEPT !.mediaType = IF @ = "" THEN OctetStream ELSE @]]

\* a validate that always takes the size the store reports
ValidateOverwriteSize(st, desc) ==
    LET info == Info(st, desc.digest)
    IN  IF info.err # "none" THEN [err |-> info.err, desc |-> desc]
        ELSE [err |-> "none",
              desc |-> [desc EXCEPT !.size = info.size,
                                    !.mediaType = IF @ = "" THEN OctetStream ELSE @]]

Validate(st, desc) ==
    LET info == Info(st, desc.digest)
        sized == IF desc.size = 0 /\ info.size # 0
                 THEN [desc EXCEPT !.size = info.size]
                 ELSE desc
    IN  IF info.err # "none" THEN [err |-> info.err, desc |-> desc]
        ELSE [err |-> "none",
              desc |-> [sized EXCEPT !.mediaType = IF @ = "" THEN OctetStream ELSE @]]

\* ContentStore().ReaderAt(ctx, desc): a new store reader for a digest the
\* store holds; readers records every reader handed out and how often each
\* was closed
CanOpen(st, desc) == st[desc.digest].present
Opened(rs, desc) == Append(rs, [digest |-> desc.digest, closes |-> 0])

\* readerAt.Close() on a store reader
CloseReader(rs, id) == [rs EXCEPT ![id].closes = @ + 1]

OpenReaders == { i \in 1..Len(readers) : readers[i].closes = 0 }

\* a containerdBlobReader: readerAt is the index of its store reader in
\* readers, 0 for nil; reader is whether the io.Reader is set.  reads and
\* closes count the Read and Close calls made on it, last is the outcome of
\* the latest of them; opens counts its calls of the store's ReaderAt, seen
\* is what its latest Descriptor call returned
NoStream ==
    [live |-> FALSE, desc |-> Desc("", 0, ""), readerAt |-> 0, reader |-> FALSE,
     reads |-> 0, closes |-> 0, last |-> "none", lastErr |-> "none",
     opens |-> 0, seen |-> Desc("", 0, "")]

NewBlobReader(desc) == [NoStream EXCEPT !.live = TRUE, !.desc = desc]

\* the call a request opened with, and how it ended: "ok", "error" (with
\* err) or "panic"; desc is the descriptor a resolve call returned
NoRet ==
    [op |-> "none", repo |-> <<>>, arg |-> "", status |-> "none", err |-> "none",
     desc |-> Desc("", 0, ""), sniffed |-> 0]

Returned(op, repo, arg, status, err, desc) ==
    [op |-> op, repo |-> repo, arg |-> arg, status |-> status, err |-> err, desc |-> desc,
     sniffed |-> 0]

ZeroDesc == Desc("", 0, "")

-----------------------------------------------------------------------------
(* The blob reader's construction and the get and resolve operations.  A   *)
(* call's outcome is [status, err, br, readers, sniffed]: how it ended, the *)
(* blob reader it returned, the store readers after it and the bytes it    *)
(* read from the store to find the media type.                             *)

Outcome(status, err, b, rs) ==
    [status |-> status, err |-> err, br |-> b, readers |-> rs, sniffed |-> 0]

\* containerdBlobReader.Close: br.readerAt.Close(), a nil dereference when
\* no store reader was ever obtained
ClosePanics(b) == b.readerAt = 0

\* newContainerdBlobReaderFromDescriptor
NewFromDescriptor(st, rs, desc) ==
    LET b == NewBlobReader(desc)
        v == Validate(st, desc)
    IN  IF v.err # "none"
        THEN IF ClosePanics(b)
             THEN Outcome("panic", v.err, NoStream, rs)
             ELSE Outcome("error", v.err, NoStream, CloseReader(rs, b.readerAt))
        ELSE Outcome("ok", "none", [b EXCEPT !.desc = v.desc], rs)

\* newContainerdBlobReaderFromDigest
NewFromDigest(st, rs, d) == NewFromDescriptor(st, rs, Desc(d, 0, ""))

\* GetBlob: repo is not used
DoGetBlob(st, rs, repo, d) == NewFromDigest(st, rs, d)

\* a GetManifest that closes the raw reader only before returning a stream
DoGetManifestAtCloseOnSuccess(st, stInfo, rs, repo, d) ==
    LET desc0 == Desc(d, 0, "")
        rs1 == Opened(rs, desc0)
        ra == Len(rs1)
        dec == Decode(st[d].content)
        desc == Desc(d, st[d].size, dec.mediaType)
        made == NewFromDescriptor(stInfo, rs1, desc)
        n == BytesRead(st[d])
    IN  IF ~CanOpen(st, desc0) THEN Outcome("error", "notfound", NoStream, rs)
        ELSE IF dec.err # "none"
        THEN [Outcome("error", dec.err, NoStream, rs1) EXCEPT !.sniffed = n]
        ELSE IF dec.mediaType = ""
        THEN [Outcome("error", "malformed", NoStream, rs1) EXCEPT !.sniffed = n]
        ELSE IF made.status # "ok"
        THEN [made EXCEPT !.sniffed = n]
        ELSE [made EXCEPT !.readers = CloseReader(made.readers, ra), !.sniffed = n]

\* GetManifest: the raw reader ra is closed by the deferred ra.Close() on
\* every path after it was opened, a panic included; st is the store when
\* the raw reader is obtained and read, stInfo the store when the blob
\* reader is constructed
DoGetManifestAt(st, stInfo, rs, repo, d) ==
    LET desc0 == Desc(d, 0, "")
        rs1 == Opened(rs, desc0)
        ra == Len(rs1)
        dec == Decode(st[d].content)
        desc == Desc(d, st[d].size, dec.mediaType)
        made == NewFromDescriptor(stInfo, rs1, desc)
        n == BytesRead(st[d])
    IN  IF ~CanOpen(st, desc0) THEN Outcome("error", "notfound", NoStream, rs)
        ELSE IF dec.err # "none"
        THEN [Outcome("error", dec.err, NoStream, CloseReader(rs1, ra)) EXCEPT !.sniffed = n]
        ELSE IF dec.mediaType = ""
        THEN [Outcome("error", "malformed", NoStream, CloseReader(rs1, ra))
                 EXCEPT !.sniffed = n]
        ELSE [made EXCEPT !.readers = CloseReader(made.readers, ra), !.sniffed = n]

\* GetManifest against a store that does not change during the call
DoGetManifest(st, rs, repo, d) == DoGetManifestAt(st, st, rs, repo, d)

\* a GetTag that completes the tag's target against the store
DoGetTagCompleting(imgs, rs, repo, tag) ==
    LET found == { e \in imgs : e.name = repo \o <<":">> \o tag }
    IN  IF found = {} THEN Outcome("error", "notfound", NoStream, rs)
        ELSE LET t == (CHOOSE e \in found : TRUE).target
             IN  Outcome("ok", "none",
                         NewBlobReader(Desc(t.digest, IF t.size = 0 THEN 1 ELSE t.size,
                                            IF t.mediaType = "" THEN OctetStream
                                            ELSE t.mediaType)), rs)

\* GetTag: is.Get(ctx, repo + ":" + tagName), the target wrapped as it is
DoGetTag(imgs, rs, repo, tag) ==
    LET found == { e \in imgs : e.name = repo \o <<":">> \o tag }
    IN  IF found = {} THEN Outcome("error", "notfound", NoStream, rs)
        ELSE Outcome("ok", "none", NewBlobReader((CHOOSE e \in found : TRUE).target), rs)

\* ResolveBlob, ResolveManifest, ResolveTag on the outcome of the get: the
\* deferred blobReader.Close() runs after the descriptor was taken
DoResolve(got) ==
    IF got.status # "ok" THEN [got EXCEPT !.br = NoStream]
    ELSE IF ClosePanics(got.br)
    THEN [got EXCEPT !.status = "panic", !.br = NoStream]
    ELSE [got EXCEPT !.readers = CloseReader(got.readers, got.br.readerAt)]

\* a request makes its opening call; desc is the descriptor that came back:
\* the stream's for a get, the returned one for a resolve
Answer(q, op, repo, arg, res, keep) ==
    /\ ret[q].op = "none"
    /\ ret' = [ret EXCEPT ![q] =
                  [Returned(op, repo, arg, res.status, res.err,
                            IF res.status = "ok" THEN res.br.desc ELSE ZeroDesc)
                      EXCEPT !.sniffed = res.sniffed]]
    /\ br' = [br EXCEPT ![q] = IF keep /\ res.status = "ok" THEN res.br ELSE NoStream]
    /\ readers' = res.readers
    /\ UNCHANGED <<images, out>>

Call(q, op, repo, arg, res, keep) ==
    /\ Answer(q, op, repo, arg, res, keep)
    /\ UNCHANGED store

GetBlob(q, repo, d) ==
    Call(q, "getBlob", repo, d, DoGetBlob(store, readers, repo, d), TRUE)

GetManifest(q, repo, d) ==
    Call(q, "getManifest", repo, d, DoGetManifest(store, readers, repo, d), TRUE)

\* GetManifest while another client of containerd removes the blob: it is
\* gone when the blob reader is constructed
GetManifestBlobGone(q, repo, d) ==
    LET gone == [store EXCEPT ![d] = NoBlob]
    IN  /\ store[d].present
        /\ store' = gone
        /\ Answer(q, "getManifest", repo, d,
                  DoGetManifestAt(store, gone, readers, repo, d), TRUE)

GetTag(q, repo, tag) ==
    Call(q, "getTag", repo, tag, DoGetTag(images, readers, repo, tag), TRUE)

ResolveBlob(q, repo, d) ==
    Call(q, "resolveBlob", repo, d, DoResolve(DoGetBlob(store, readers, repo, d)), FALSE)

ResolveManifest(q, repo, d) ==
    Call(q, "resolveManifest", repo, d,
         DoResolve(DoGetManifest(store, readers, repo, d)), FALSE)

ResolveTag(q, repo, tag) ==
    Call(q, "resolveTag", repo, tag, DoResolve(DoGetTag(images, readers, repo, tag)), FALSE)

\* a Read that keeps the reader of a failed open
ReadKeepsFailedReader(q) ==
    LET b == br[q]
        unopened == b.readerAt = 0
    IN  /\ b.live
        /\ b.last # "panic"
        /\ b.closes = 0
        /\ b.reads < MaxReads
        /\ IF ~b.reader /\ unopened /\ ~CanOpen(store, b.desc)
           THEN /\ br' = [br EXCEPT ![q] =
                             [b EXCEPT !.reads = @ + 1, !.last = "error",
                                       !.lastErr = "notfound", !.opens = @ + 1,
                                       !.reader = TRUE]]
                /\ readers' = readers
           ELSE /\ readers' = IF ~b.reader /\ unopened THEN Opened(readers, b.desc) ELSE readers
                /\ br' = [br EXCEPT ![q] =
                             [b EXCEPT !.readerAt = IF ~b.reader /\ unopened
                                                    THEN Len(readers) + 1 ELSE @,
                                       !.opens = IF ~b.reader /\ unopened THEN @ + 1 ELSE @,
                                       !.reader = TRUE,
                                       !.reads = @ + 1, !.last = "ok",
                                       !.lastErr = "none"]]
        /\ UNCHANGED <<images, out, store, ret>>

\* a Read that asks the store for a new reader every time
ReadReopens(q) ==
    LET b == br[q]
    IN  /\ b.live
        /\ b.last # "panic"
        /\ b.closes = 0
        /\ b.reads < MaxReads
        /\ IF ~CanOpen(store, b.desc)
           THEN /\ br' = [br EXCEPT ![q] =
                             [b EXCEPT !.reads = @ + 1, !.last = "error",
                                       !.lastErr = "notfound", !.opens = @ + 1]]
                /\ readers' = readers
           ELSE /\ readers' = Opened(readers, b.desc)
                /\ br' = [br EXCEPT ![q] =
                             [b EXCEPT !.readerAt = Len(readers) + 1,
                                       !.opens = @ + 1,
                                       !.reader = TRUE,
                                       !.reads = @ + 1, !.last = "ok",
                                       !.lastErr = "none"]]
        /\ UNCHANGED <<images, out, store, ret>>

\* containerdBlobReader.Read, with ensureReader and ensureReaderAt: the
\* store reader is obtained when there is none yet
Read(q) ==
    LET b == br[q]
        unopened == b.readerAt = 0
    IN  /\ b.live
        /\ b.last # "panic"
        /\ b.closes = 0
        /\ b.reads < MaxReads
        /\ IF ~b.reader /\ unopened /\ ~CanOpen(store, b.desc)
           THEN /\ br' = [br EXCEPT ![q] =
                             [b EXCEPT !.reads = @ + 1, !.last = "error",
                                       !.lastErr = "notfound", !.opens = @ + 1]]
                /\ readers' = readers
           ELSE /\ readers' = IF ~b.reader /\ unopened THEN Opened(readers, b.desc) ELSE readers
                /\ br' = [br EXCEPT ![q] =
                             [b EXCEPT !.readerAt = IF ~b.reader /\ unopened
                                                    THEN Len(readers) + 1 ELSE @,
                                       !.opens = IF ~b.reader /\ unopened THEN @ + 1 ELSE @,
                                       !.reader = TRUE,
                                       !.reads = @ + 1, !.last = "ok",
                                       !.lastErr = "none"]]
        /\ UNCHANGED <<images, out, store, ret>>

\* a Close on the store reader obtained last, whichever blob reader holds it
CloseLatest(q) ==
    LET b == br[q]
    IN  /\ b.live
        /\ b.last # "panic"
        /\ b.closes < MaxCloses
        /\ IF ClosePanics(b)
           THEN /\ br' = [br EXCEPT ![q] = [b EXCEPT !.closes = @ + 1, !.last = "panic"]]
                /\ readers' = readers
           ELSE /\ br' = [br EXCEPT ![q] =
                             [b EXCEPT !.closes = @ + 1, !.last = "ok", !.lastErr = "none"]]
                /\ readers' = CloseReader(readers, Len(readers))
        /\ UNCHANGED <<images, out, store, ret>>

\* containerdBlobReader.Descriptor
Descriptor(q) ==
    LET b == br[q]
    IN  /\ b.live
        /\ b.last # "panic"
        /\ br' = [br EXCEPT ![q] = [b EXCEPT !.seen = b.desc]]
        /\ UNCHANGED <<images, out, store, readers, ret>>

\* containerdBlobReader.Close
Close(q) ==
    LET b == br[q]
    IN  /\ b.live
        /\ b.last # "panic"
        /\ b.closes < MaxCloses
        /\ IF ClosePanics(b)
           THEN /\ br' = [br EXCEPT ![q] = [b EXCEPT !.closes = @ + 1, !.last = "panic"]]
                /\ readers' = readers
           ELSE /\ br' = [br EXCEPT ![q] =
                             [b EXCEPT !.closes = @ + 1, !.last = "ok", !.lastErr = "none"]]
                /\ readers' = CloseReader(readers, b.readerAt)
        /\ UNCHANGED <<images, out, store, ret>>

\* the catalog and the arguments of the stream operations
StreamCatalog ==
    { [name |-> N_ab_v1, target |-> Desc("DG1", 128, OCIManifest)],
      [name |-> N_ab_v2, target |-> Desc("DG2", 0, "")] }
StreamRepos == { R_ab, R_cd }
TagArgs == { <<"v", "1">>, <<"v", "2">>, <<"t">> }

\* the request the single-request specification runs
One == { q \in Req : q = 1 }

InitStream ==
    /\ images = StreamCatalog
    /\ out = NoCall
    /\ store \in [Digests -> StoreBlobs \cup {NoBlob}]
    /\ readers = <<>>
    /\ br = [q \in Req |-> NoStream]
    /\ ret = [q \in Req |-> NoRet]

NextStream ==
    \/ \E q \in One, repo \in StreamRepos, d \in Digests : GetBlob(q, repo, d)
    \/ \E q \in One, repo \in StreamRepos, d \in Digests : GetManifest(q, repo, d)
    \/ \E q \in One, repo \in StreamRepos, d \in Digests : GetManifestBlobGone(q, repo, d)
    \/ \E q \in One, repo \in StreamRepos, tag \in TagArgs : GetTag(q, repo, tag)
    \/ \E q \in One, repo \in StreamRepos, d \in Digests : ResolveBlob(q, repo, d)
    \/ \E q \in One, repo \in StreamRepos, d \in Digests : ResolveManifest(q, repo, d)
    \/ \E q \in One, repo \in StreamRepos, tag \in TagArgs : ResolveTag(q, repo, tag)
    \/ \E q \in One : Read(q)
    \/ \E q \in One : Close(q)

\* one request against every store
SpecStream == InitStream /\ [][NextStream]_vars

\* Requests served at the same time, each with its own blob reader, two of
\* them possibly on the same digest: the steps of the requests interleave.
ConcurrentStore == [d \in Digests |-> IF d = "DG1" THEN Blob(42, Invalid) ELSE NoBlob]
ConcurrentTags == { <<"v", "2">> }

InitConcurrent ==
    /\ images = StreamCatalog
    /\ out = NoCall
    /\ store = ConcurrentStore
    /\ readers = <<>>
    /\ br = [q \in Req |-> NoStream]
    /\ ret = [q \in Req |-> NoRet]

NextConcurrent ==
    \/ \E q \in Req, d \in Digests : GetBlob(q, R_ab, d)
    \/ \E q \in Req, tag \in ConcurrentTags : GetTag(q, R_ab, tag)
    \/ \E q \in Req : Read(q)
    \/ \E q \in Req : Descriptor(q)
    \/ \E q \in Req : Close(q)

SpecConcurrent == InitConcurrent /\ [][NextConcurrent]_vars

-----------------------------------------------------------------------------
(* Descriptor completion on its own: validate called on a blob reader that *)
(* holds any descriptor, against any store, more than once.                *)

\* the most validate calls made on one blob reader
MaxValidates == 2

\* the sizes and media types a descriptor handed to validate carries
DescSizes == {0, 7, 42}
DescTypes == {"", OctetStream, OCIManifest}

\* br.validate(ctx): ret keeps the number of calls made so far in arg and
\* the descriptor the latest call started from in desc
CallValidate(q) ==
    LET b == br[q]
        n == IF ret[q].op = "validate" THEN ret[q].arg ELSE 0
        v == Validate(store, b.desc)
    IN  /\ b.live
        /\ n < MaxValidates
        /\ ret' = [ret EXCEPT ![q] =
                      Returned("validate", <<>>, n + 1,
                               IF v.err = "none" THEN "ok" ELSE "error", v.err, b.desc)]
        /\ br' = [br EXCEPT ![q] = [b EXCEPT !.desc = v.desc]]
        /\ UNCHANGED <<images, out, store, readers>>

InitComplete ==
    /\ images = {}
    /\ out = NoCall
    /\ store \in [Digests -> StoreBlobs \cup {NoBlob}]
    /\ readers = <<>>
    /\ \E d \in Digests, n \in DescSizes, mt \in DescTypes :
           br = [q \in Req |-> IF q \in One THEN NewBlobReader(Desc(d, n, mt)) ELSE NoStream]
    /\ ret = [q \in Req |-> NoRet]

NextComplete == \E q \in One : CallValidate(q)

\* validate on every descriptor against every store
SpecComplete == InitComplete /\ [][NextComplete]_vars

-----------------------------------------------------------------------------
(* Properties of the blob operations *)

Present(d) == store[d].present

\* C5: for a digest absent from the store, getBlob and resolveBlob return
\* the store's not-found error (no stream, no zero-value success, no crash),
\* and no store reader is open afterwards.
AbsentBlobNotFound ==
    \A q \in Req :
        (ret[q].op \in {"getBlob", "resolveBlob"} /\ ~Present(ret[q].arg))
            => /\ ret[q].status = "error"
               /\ ret[q].err = "notfound"
               /\ ~br[q].live
               /\ OpenReaders = {}

\* C6: Close on a stream a get returned, before any Read, returns without
\* error and without crashing, and leaves no store reader open.
CloseBeforeReadSucceeds ==
    \A q \in Req :
        (br[q].live /\ br[q].reads = 0 /\ br[q].closes >= 1)
            => /\ br[q].last = "ok"
               /\ OpenReaders = {}

\* C7: for a stream that opened its store reader, the Close calls made
\* after the Reads return without error and the store reader is released
\* exactly once: the store sees one close per open, never two.
CloseTwiceReleasesOnce ==
    \A q \in Req :
        (br[q].live /\ br[q].readerAt # 0 /\ br[q].closes >= 1)
            => /\ br[q].last = "ok"
               /\ readers[br[q].readerAt].closes = 1

\* C8: for a digest D the store holds with size s, getBlob(repo, D) succeeds
\* with a stream whose descriptor is {D, s, application/octet-stream},
\* whatever the repo argument.
GetBlobCompletesDescriptor ==
    \A q \in Req :
        (ret[q].op = "getBlob" /\ Present(ret[q].arg))
            => /\ ret[q].status = "ok"
               /\ br[q].live
               /\ br[q].desc = Desc(ret[q].arg, store[ret[q].arg].size, OctetStream)
               /\ ret[q].desc = br[q].desc

\* getBlob has returned a stream for a blob of positive size, under a
\* repository that holds no image
GetBlobReturnedSized ==
    \E q \in Req :
        /\ ret[q].op = "getBlob"
        /\ ret[q].status = "ok"
        /\ ret[q].repo = R_cd
        /\ br[q].desc.size > 0

\* the media types a blob's content declares: the non-empty string values
\* of its top-level members named mediaType
DeclaredTypes(c) ==
    { c.members[i].value.s :
        i \in { j \in 1..Len(c.members) :
                  /\ c.members[j].key = "mediaType"
                  /\ c.members[j].value.type = "string"
                  /\ c.members[j].value.s # "" } }

\* C9: for a blob at M whose content declares a non-empty top-level
\* mediaType T and whose length is n, getManifest(repo, M) succeeds with a
\* stream whose descriptor is {M, n, T}.
GetManifestSniffsDeclaredType ==
    \A q \in Req :
        (ret[q].op = "getManifest" /\ Present(ret[q].arg))
            => \A T \in DeclaredTypes(store[ret[q].arg].content) :
                  /\ ret[q].status = "ok"
                  /\ br[q].live
                  /\ br[q].desc = Desc(ret[q].arg, store[ret[q].arg].size, T)

\* the content has no top-level member named mediaType, or only empty ones
NoDeclaredType(c) ==
    \A i \in 1..Len(c.members) :
        c.members[i].key = "mediaType" => c.members[i].value = Str("")

\* C10: for a blob whose content has no top-level mediaType, or has it
\* empty, getManifest and resolveManifest fail and return neither a stream
\* nor a descriptor.
UntypedManifestRejected ==
    \A q \in Req :
        (/\ ret[q].op \in {"getManifest", "resolveManifest"}
         /\ Present(ret[q].arg)
         /\ NoDeclaredType(store[ret[q].arg].content))
            => /\ ret[q].status = "error"
               /\ ~br[q].live
               /\ ret[q].desc = ZeroDesc

\* what the get operation a resolve call wraps does, on the same input
GetOf(q) ==
    CASE ret[q].op = "resolveBlob" -> DoGetBlob(store, <<>>, ret[q].repo, ret[q].arg)
      [] ret[q].op = "resolveManifest" -> DoGetManifest(store, <<>>, ret[q].repo, ret[q].arg)
      [] ret[q].op = "resolveTag" -> DoGetTag(images, <<>>, ret[q].repo, ret[q].arg)

\* C11: on every input on which the get succeeds, the resolve operation
\* returns successfully the descriptor of the stream the get returns, and
\* leaves no store reader open.
ResolveReturnsGetDescriptor ==
    \A q \in Req :
        (ret[q].op \in {"resolveBlob", "resolveManifest", "resolveTag"}
            /\ GetOf(q).status = "ok")
            => /\ ret[q].status = "ok"
               /\ ret[q].desc = GetOf(q).br.desc
               /\ OpenReaders = {}

\* the catalog entries named repo:tag
TagEntry(repo, tag) == { e \in images : e.name = repo \o <<":">> \o tag }

\* C12: getTag looks up exactly the catalog entry "repo:tag"; without such
\* an entry it fails with not-found and creates no stream; with one it
\* returns a stream whose descriptor is the entry's target as stored,
\* incomplete or not and whether or not the store holds the target's
\* digest, and obtains no store reader.
GetTagWrapsTarget ==
    \A q \in Req :
        ret[q].op = "getTag"
            => LET found == TagEntry(ret[q].repo, ret[q].arg)
               IN  /\ found = {}
                        => /\ ret[q].status = "error"
                           /\ ret[q].err = "notfound"
                           /\ ~br[q].live
                           /\ readers = <<>>
                   /\ found # {}
                        => /\ ret[q].status = "ok"
                           /\ br[q].live
                           /\ \A e \in found : br[q].desc = e.target /\ ret[q].desc = e.target
                           /\ br[q].reads = 0 => readers = <<>>

\* getTag returned a stream for a tag whose target is incomplete and whose
\* digest the store does not hold
GetTagOfAbsentTarget ==
    \E q \in Req :
        /\ ret[q].op = "getTag"
        /\ ret[q].status = "ok"
        /\ br[q].live
        /\ br[q].reads = 0
        /\ br[q].desc.size = 0
        /\ br[q].desc.mediaType = ""
        /\ ~Present(br[q].desc.digest)

\* C13: for a digest the store holds, completing an already completed
\* descriptor changes nothing, and completing a descriptor whose size and
\* media type are set returns it unchanged, also when the set size is not
\* the size the store reports.
ValidateIdempotent ==
    \A q \in Req :
        (ret[q].op = "validate" /\ ret[q].err = "none")
            => /\ ret[q].arg >= 2 => br[q].desc = ret[q].desc
               /\ (ret[q].desc.size # 0 /\ ret[q].desc.mediaType # "")
                      => br[q].desc = ret[q].desc

\* a descriptor whose set size is not the store's was completed twice
ValidatedTwiceOtherSize ==
    \E q \in Req :
        /\ ret[q].op = "validate"
        /\ ret[q].err = "none"
        /\ ret[q].arg = 2
        /\ br[q].desc.size # 0
        /\ br[q].desc.size # store[br[q].desc.digest].size
        /\ br[q].desc.mediaType = OCIManifest

\* a blob reader's store reader is its own: opened for its digest, closed
\* as often as the blob reader was closed, held by no other blob reader
OwnReader ==
    \A q \in Req :
        br[q].readerAt # 0
            => /\ readers[br[q].readerAt].digest = br[q].desc.digest
               /\ readers[br[q].readerAt].closes = br[q].closes
               /\ \A p \in Req \ {q} : br[p].readerAt # br[q].readerAt

\* what a request's opening call does when no other request runs
Alone(q) ==
    CASE ret[q].op = "getBlob" -> DoGetBlob(store, <<>>, ret[q].repo, ret[q].arg)
      [] ret[q].op = "getTag" -> DoGetTag(images, <<>>, ret[q].repo, ret[q].arg)

\* a request's results are the ones it gets when it runs alone
AnswersAsAlone ==
    \A q \in Req :
        ret[q].op # "none"
            => /\ ret[q].status = Alone(q).status
               /\ ret[q].err = Alone(q).err
               /\ br[q].live => br[q].desc = Alone(q).br.desc
               /\ br[q].seen \in {ZeroDesc, br[q].desc}
               /\ (br[q].reads > 0 /\ CanOpen(store, br[q].desc)) => br[q].readerAt # 0
               /\ br[q].last = "error" => (br[q].reads > 0 /\ ~CanOpen(store, br[q].desc))
               /\ (br[q].reads > 0 /\ br[q].closes = 0 /\ ~CanOpen(store, br[q].desc))
                      => br[q].last = "error"
               /\ br[q].last = "panic" => br[q].readerAt = 0

\* a step is one request's: the blob readers, the results and the store
\* readers of all the others are as before
OneRequestSteps ==
    \E p \in Req :
        \A q \in Req \ {p} :
            /\ br'[q] = br[q]
            /\ ret'[q] = ret[q]
            /\ br[q].readerAt # 0 => readers'[br[q].readerAt] = readers[br[q].readerAt]

\* C15: under every interleaving of the operations of separate requests, no
\* step of one request changes the descriptor or the reader state of
\* another request's blob reader, also on the same digest, and every
\* request gets the results it gets alone.
RequestsIndependent ==
    /\ []OwnReader
    /\ []AnswersAsAlone
    /\ [][OneRequestSteps]_vars

\* two requests read the same digest; one has closed, the other's store
\* reader is still open
SameDigestOneClosed ==
    \E p, q \in Req :
        /\ p # q
        /\ br[p].readerAt # 0
        /\ br[q].readerAt # 0
        /\ br[p].desc.digest = br[q].desc.digest
        /\ br[p].closes = 1
        /\ br[q].closes = 0
        /\ br[q].seen = br[q].desc
        /\ readers[br[q].readerAt].closes = 0

\* C16: a stream returned by getBlob or getTag holds no store reader until
\* its first Read; that Read obtains one for the descriptor's digest, the
\* Reads after it use the same one, and over its life the stream obtains at
\* most one.
ReaderOpenedLazilyOnce ==
    \A q \in One :
        (ret[q].op \in {"getBlob", "getTag"} /\ ret[q].status = "ok")
            => /\ br[q].reads = 0
                    => (br[q].readerAt = 0 /\ br[q].opens = 0 /\ readers = <<>>)
               /\ Len(readers) <= 1
               /\ br[q].readerAt # 0
                    => /\ br[q].readerAt = Len(readers)
                       /\ readers[br[q].readerAt].digest = br[q].desc.digest
               /\ (br[q].reads > 0 /\ Present(br[q].desc.digest))
                    => (br[q].readerAt # 0 /\ br[q].opens = 1)

\* a stream from getBlob was read twice and holds one store reader
ReadTwiceOneReader ==
    \E q \in One :
        /\ ret[q].op = "getBlob"
        /\ br[q].reads = 2
        /\ br[q].last = "ok"
        /\ br[q].readerAt = 1
        /\ Len(readers) = 1

\* C18: the bytes getManifest reads from the store to find the media type
\* stay within a fixed maximum, however long the blob is.
SniffReadsBounded ==
    \A q \in Req :
        ret[q].op \in {"getManifest", "resolveManifest"} => ret[q].sniffed <= SniffLimit

\* C19: however getManifest ends, with a stream, with a decoding error,
\* with the media type missing or with the construction of the stream
\* failing, the raw reader it read from is closed; the only store reader
\* that can be open after it is the one the returned stream obtained by its
\* own Read.
RawReaderClosed ==
    \A q \in One :
        ret[q].op = "getManifest"
            => /\ \A i \in 1..Len(readers) : i # br[q].readerAt => readers[i].closes = 1
               /\ br[q].reads = 0 => OpenReaders = {}

\* getManifest read the media type, the construction of the stream failed,
\* and the raw reader is closed
ConstructionFailedRawClosed ==
    \E q \in One :
        /\ ret[q].op = "getManifest"
        /\ ret[q].status = "panic"
        /\ ret[q].sniffed > 0
        /\ Len(readers) = 1
        /\ readers[1].closes = 1

\* C20: when the store cannot open the stream's digest, Read returns the
\* store's error, the stream stays without reader and with its descriptor
\* as it was, and every later Read asks the store again, once.
FailedOpenLeavesUnopened ==
    \A q \in One :
        (br[q].live /\ br[q].reads > 0 /\ ~Present(br[q].desc.digest))
            => /\ br[q].closes = 0 => (br[q].last = "error" /\ br[q].lastErr = "notfound")
               /\ br[q].readerAt = 0
               /\ ~br[q].reader
               /\ br[q].desc = ret[q].desc
               /\ br[q].opens = br[q].reads
               /\ readers = <<>>

\* two Reads in a row failed to open the stream's digest
ReadFailedTwice ==
    \E q \in One :
        /\ br[q].live
        /\ br[q].reads = 2
        /\ br[q].opens = 2
        /\ br[q].last = "error"
        /\ ~Present(br[q].desc.digest)

-----------------------------------------------------------------------------
(* The enumeration calls *)

InitCatalog ==
    /\ images = {}
    /\ out = NoCall
    /\ store = [d \in Digests |-> NoBlob]
    /\ readers = <<>>
    /\ br = [q \in Req |-> NoStream]
    /\ ret = [q \in Req |-> NoRet]

NextCatalog ==
    \/ \E n \in UniverseNames : ImageCreate(n, CatalogTarget)
    \/ \E n \in UniverseNames : ImageDelete(n)
    \/ \E listErr \in BOOLEAN : Repositories(listErr)
    \/ \E repo \in RepoArgs, listErr \in BOOLEAN : Tags(repo, listErr)

\* the enumeration calls against a changing catalog
SpecCatalog == InitCatalog /\ [][NextCatalog]_vars

====
